---- MODULE Spec2Model ----
(***************************************************************************)
(* Model of tiny-alignment-studio: the JSONL telemetry log               *)
(* (src/telemetry/events.py, src/telemetry/callbacks.py,                  *)
(* src/contracts/events.py), the preference-data formatters and pipeline  *)
(* (src/core/data/formatters.py, src/core/data/pipeline.py), the          *)
(* algorithm registry (src/core/algorithms/registry.py), the config       *)
(* loader (src/utils/config.py, src/contracts/training.py), the trainer   *)
(* orchestrator (src/core/trainer.py) and the dashboard session state     *)
(* (src/ui/state.py, src/ui/pages/2_Arena.py).                            *)
(*                                                                         *)
(* Strings that are used as file names are sequences of character codes,  *)
(* so that the file-name construction, the glob and Path.stem are         *)
(* computed as the code computes them.                                     *)
(***************************************************************************)
EXTENDS Integers, Sequences, FiniteSets, TLC

VARIABLES
    dirExists,   \* the telemetry log_dir exists on disk
    files,       \* file name -> sequence of lines; DOMAIN files = files on disk
    written,     \* history: run id -> events handed to EventWriter.write
    ret,         \* the last operation and what it returned or raised
    row,         \* the raw record handed to a formatter or validated
    out,         \* what the last formatter / pipeline call returned or raised
    max_samples, \* DataPipeline.max_samples
    sourceRows,  \* the rows of the dataset that load's source names
    raw_dataset, \* the dataset the caller got from load
    validated,   \* the records the caller got from validate
    registry,    \* _REGISTRY: algorithm name -> plugin class
    instances,   \* number of plugin objects constructed so far
    configFile,  \* the file at the path given to load_config
    train,       \* the AlignmentTrainer.train call: its position and locals
    disk,        \* the output directory and the files train puts in it
    inflight,    \* the EventWriter.write call that is under way, if any
    heap,        \* the list objects of the dashboard process
    sessions     \* st.session_state of every dashboard session

vars == <<dirExists, files, written, ret, row, out,
          max_samples, sourceRows, raw_dataset, validated, registry, instances, configFile,
          train, disk, inflight, heap, sessions>>

telemetryVars == <<dirExists, files, written, ret>>
dataVars == <<row, out>>
pipeVars == <<max_samples, sourceRows, raw_dataset, validated>>
registryVars == <<registry, instances>>
configVars == <<configFile>>
trainVars == <<train, disk>>
liveVars == <<inflight>>
uiVars == <<heap, sessions>>

\* ------------------------------------------------------------------ bounds

\* Total number of events written over all runs.
MaxWrites == 2
\* Largest n handed to EventReader.tail.
MaxTail == 2
\* Longest transcript text, in tokens, that is enumerated exhaustively.
MaxText == 2

\* Number of rows of a source dataset.
MaxRows == 3

\* Number of plugin objects constructed by AlgorithmRegistry.get.
MaxInstances == 3

\* ------------------------------------------------------------ value domains

\* A Python float (or None) is a tagged value: floats have no TLA+ type.
Num(v) == [k |-> "num", v |-> v]
NaN == [k |-> "nan", v |-> 0]
PyNone == [k |-> "none", v |-> 0]
\* JSON null, as it stands in a log line.
JNull == [k |-> "null", v |-> 0]

\* Run ids "a", "b" and "a.b" as character codes (scripts/train.py makes
\* non-empty ids, "run_" and eight hex digits).
RunIds == {<<97>>, <<98>>, <<97, 46, 98>>}

\* Trainer states handed to on_log: None, an object without global_step,
\* or an object with global_step.
NoState == [kind |-> "none", global_step |-> 0]
NoStepState == [kind |-> "nostep", global_step |-> 0]
State(s) == [kind |-> "state", global_step |-> s]

\* The logs argument of on_log: None, or a dict given as its set of items.
NoLogs == [present |-> FALSE, items |-> {}]
Dict(items) == [present |-> TRUE, items |-> items]
GoodLogs == Dict({<<"loss", Num(1)>>, <<"learning_rate", Num(1)>>})
NaNLogs == Dict({<<"loss", NaN>>, <<"learning_rate", Num(1)>>})
NegLrLogs == Dict({<<"loss", Num(1)>>, <<"learning_rate", Num(-1)>>})
EpochLogs == Dict({<<"epoch", Num(1)>>, <<"rewards/margins", Num(3)>>})

\* The (state, logs) pairs on_log is called with.
OnLogCalls ==
    { <<NoState, NoLogs>>, <<State(1), Dict({})>>,
      <<State(0), GoodLogs>>, <<State(1), GoodLogs>>, <<State(1), NaNLogs>>,
      <<State(-1), GoodLogs>>, <<State(1), NegLrLogs>>, <<State(-1), NoLogs>>,
      <<NoStepState, EpochLogs>>, <<NoState, EpochLogs>> }

\* A raw preference record is a dict whose entries may be absent.
Absent == [has |-> FALSE, text |-> <<>>]
Present(t) == [has |-> TRUE, text |-> t]

MkRow(prompt, chosen, rejected, source) ==
    [prompt |-> prompt, chosen |-> chosen, rejected |-> rejected, source |-> source]

NoRow == MkRow(Absent, Absent, Absent, Absent)

\* The result of a formatter or pipeline call.
Out(op, arg, err, records) ==
    [op |-> op, arg |-> arg, err |-> err, records |-> records]

NoOut == Out("none", <<>>, "", <<>>)

\* The result of a call that returns a plain value.
Returned(op, arg, value) ==
    [op |-> op, arg |-> arg, err |-> "", records |-> <<>>, value |-> value]

\* No config file at the path.
NoFile == [exists |-> FALSE]

\* The parts of the state that a specification about another part leaves
\* at rest.
PipeIdle ==
    /\ max_samples = PyNone
    /\ sourceRows = <<>>
    /\ raw_dataset = <<>>
    /\ validated = <<>>

RegistryIdle ==
    /\ registry = <<>>
    /\ instances = 0

ConfigIdle == configFile = NoFile

\* An output directory that does not exist.
EmptyDisk ==
    [output_dir |-> FALSE, manifest |-> "absent",
     adapter_model |-> "absent", adapter_tokenizer |-> "absent"]

\* train has not been called.
NoTrain ==
    [i |-> 0, algorithm |-> <<>>, cls |-> "", at |-> "", done |-> <<>>,
     err |-> "", returned |-> FALSE, disk0 |-> EmptyDisk]

\* No write is under way.
NoWrite == [stage |-> "none", run |-> <<>>]

RestIdle ==
    /\ train = NoTrain
    /\ disk = EmptyDisk
    /\ inflight = NoWrite
    /\ heap = <<>>
    /\ sessions = <<>>

\* --------------------------------------------------- contracts/events.py

\* Field(ge=0) on a float: NaN compares false with everything.
FloatGe0(x) == x.k = "num" /\ x.v >= 0

\* Mutant: the learning-rate constraint is dropped.
RunEventValidStepOnly(step, learning_rate) == step >= 0

RunEventValid(step, learning_rate) == step >= 0 /\ FloatGe0(learning_rate)

RunEvent(run_id, step, loss, reward_margin, learning_rate, extras) ==
    [run_id |-> run_id, step |-> step, loss |-> loss,
     reward_margin |-> reward_margin, learning_rate |-> learning_rate,
     extras |-> extras]

\* Events handed directly to EventWriter(log_dir, w).write: validated
\* RunEvent objects of that run.
SampleEvents(w) ==
    { RunEvent(w, 0, Num(1), PyNone, Num(1), {}),
      RunEvent(w, 1, Num(1), PyNone, Num(1), {}),
      RunEvent(w, 1, NaN, PyNone, Num(1), {}) }

\* model_dump_json: a non-finite float and None are both written as null.
SerFloat(x) == IF x.k = "num" THEN x ELSE JNull

ModelDumpJson(e) ==
    [run_id |-> e.run_id, step |-> e.step, loss |-> SerFloat(e.loss),
     reward_margin |-> SerFloat(e.reward_margin),
     learning_rate |-> SerFloat(e.learning_rate),
     extras |-> {<<p[1], SerFloat(p[2])>> : p \in e.extras}]

\* json.loads: null becomes None.
LoadValue(j) == IF j.k = "null" THEN PyNone ELSE j

\* What a reader finds of a line whose write is not finished: some of its
\* characters and no newline.
TornLine == [torn |-> TRUE]
IsTorn(line) == "torn" \in DOMAIN line

\* RunEvent(**json.loads(line)): the line is a whole JSON object, and loss
\* and learning_rate are required floats.
LineValid(line) ==
    /\ ~IsTorn(line)
    /\ LoadValue(line.loss).k = "num"
    /\ RunEventValid(line.step, LoadValue(line.learning_rate))

ParseLine(line) ==
    RunEvent(line.run_id, line.step, LoadValue(line.loss),
             LoadValue(line.reward_margin), LoadValue(line.learning_rate),
             {<<p[1], LoadValue(p[2])>> : p \in line.extras})

\* ------------------------------------------------------------ file names

Suffix == <<46, 106, 115, 111, 110, 108>>   \* ".jsonl"

\* Mutant: every run logs into the one file "e.jsonl".
LogFileShared(run_id) == <<101>> \o Suffix

LogFile(run_id) == run_id \o Suffix

EndsWith(s, t) ==
    /\ Len(s) >= Len(t)
    /\ SubSeq(s, Len(s) - Len(t) + 1, Len(s)) = t

\* Path.glob("*.jsonl") over the directory's files.
GlobOf(fs) == {f \in DOMAIN fs : EndsWith(f, Suffix)}

\* str.rfind("."), 0-based, -1 when absent.
RFindDot(name) ==
    LET hits == {i \in 1..Len(name) : name[i] = 46}
    IN IF hits = {} THEN -1 ELSE (CHOOSE i \in hits : \A j \in hits : j <= i) - 1

\* Mutant: everything from the first dot on is cut.
StemFirstDot(name) ==
    LET hits == {i \in 1..Len(name) : name[i] = 46}
    IN IF hits = {} THEN name
       ELSE SubSeq(name, 1, (CHOOSE i \in hits : \A j \in hits : i <= j) - 1)

\* Path.stem: the name without its last suffix; a leading or trailing dot
\* starts no suffix.
Stem(name) ==
    LET i == RFindDot(name)
    IN IF 0 < i /\ i < Len(name) - 1 THEN SubSeq(name, 1, i) ELSE name

RECURSIVE LexLeq(_, _)
LexLeq(a, b) ==
    IF a = <<>> THEN TRUE
    ELSE IF b = <<>> THEN FALSE
    ELSE IF a[1] # b[1] THEN a[1] < b[1]
    ELSE LexLeq(Tail(a), Tail(b))

RECURSIVE Sorted(_)
Sorted(S) ==
    IF S = {} THEN <<>>
    ELSE LET m == CHOOSE x \in S : \A y \in S : LexLeq(x, y)
         IN <<m>> \o Sorted(S \ {m})

\* --------------------------------------------------------------- the log

LinesOf(fs, f) == IF f \in DOMAIN fs THEN fs[f] ELSE <<>>

Lines(f) == LinesOf(files, f)

TotalWritten ==
    LET RECURSIVE Sum(_)
        Sum(S) == IF S = {} THEN 0
                  ELSE LET r == CHOOSE x \in S : TRUE
                       IN Len(written[r]) + Sum(S \ {r})
    IN Sum(RunIds)

Ret(op, run, n, events, num, err) ==
    [op |-> op, run |-> run, n |-> n, events |-> events, num |-> num, err |-> err]

\* Mutant: the file is opened with "w".
AppendLineTruncate(f, line) ==
    [g \in DOMAIN files \cup {f} |-> IF g = f THEN <<line>> ELSE files[g]]

\* Mutant: the line is put in front.
PrependLine(f, line) ==
    [g \in DOMAIN files \cup {f} |->
        IF g = f THEN <<line>> \o LinesOf(files, f) ELSE files[g]]

\* open(log_file, "a") and one write of the line.
AppendLine(f, line) ==
    IF f \in DOMAIN files
    THEN [files EXCEPT ![f] = Append(@, line)]
    ELSE [g \in DOMAIN files \cup {f} |-> IF g = f THEN <<line>> ELSE files[g]]

Init ==
    /\ dirExists = FALSE
    /\ files = <<>>
    /\ written = [r \in RunIds |-> <<>>]
    /\ ret = Ret("init", <<>>, 0, <<>>, 0, "")
    /\ row = NoRow
    /\ out = NoOut
    /\ PipeIdle /\ RegistryIdle /\ ConfigIdle /\ RestIdle

\* EventWriter.__init__: creates the directory, not the file.
NewWriter(r) ==
    /\ UNCHANGED <<dataVars, pipeVars, registryVars, configVars, trainVars, liveVars, uiVars>>
    /\ dirExists' = TRUE
    /\ ret' = Ret("EventWriter", <<>>, 0, <<>>, 0, "")
    /\ UNCHANGED <<files, written>>

\* EventReader.__init__: touches nothing on disk.
NewReader(r) ==
    /\ UNCHANGED <<dataVars, pipeVars, registryVars, configVars, trainVars, liveVars, uiVars>>
    /\ ret' = Ret("EventReader", <<>>, 0, <<>>, 0, "")
    /\ UNCHANGED <<dirExists, files, written>>

\* The effect of EventWriter(log_dir, w).write(e).
DoWrite(w, e) ==
    /\ files' = AppendLine(LogFile(w), ModelDumpJson(e))
    /\ written' = [written EXCEPT ![w] = Append(@, e)]

\* EventWriter.write on a writer made earlier (so the directory exists).
Write(w, e) ==
    /\ UNCHANGED <<dataVars, pipeVars, registryVars, configVars, trainVars, liveVars, uiVars>>
    /\ dirExists
    /\ TotalWritten < MaxWrites
    /\ DoWrite(w, e)
    /\ ret' = Ret("write", w, 0, <<>>, 0, "")
    /\ UNCHANGED dirExists

\* dict.get(key, default) on the logs dict.
LogsGet(logs, key, default) ==
    IF \E p \in logs.items : p[1] = key
    THEN (CHOOSE p \in logs.items : p[1] = key)[2]
    ELSE default

\* getattr(state, "global_step", 0) if state else 0
OnLogStep(state) == IF state.kind = "state" THEN state.global_step ELSE 0

ExtrasExcluded == {"loss", "learning_rate", "rewards/margins"}

\* Mutant: every log entry is copied into extras.
OnLogExtrasKeepAll(logs) == logs.items

OnLogExtras(logs) == {p \in logs.items : p[1] \notin ExtrasExcluded}

\* Mutant: every callback stamps its events with run "a".
OnLogEventFixedRun(run_id, state, logs) ==
    RunEvent(<<97>>, OnLogStep(state), LogsGet(logs, "loss", Num(0)),
             LogsGet(logs, "rewards/margins", PyNone),
             LogsGet(logs, "learning_rate", Num(0)), OnLogExtras(logs))

\* The event TelemetryCallback.on_log builds from its arguments.
OnLogEvent(run_id, state, logs) ==
    RunEvent(run_id, OnLogStep(state), LogsGet(logs, "loss", Num(0)),
             LogsGet(logs, "rewards/margins", PyNone),
             LogsGet(logs, "learning_rate", Num(0)), OnLogExtras(logs))

\* Mutant: only None is skipped ("if logs is None").
LogsFalsyNoneOnly(logs) == ~logs.present

\* "if not logs: return"
LogsFalsy(logs) == ~logs.present \/ logs.items = {}

\* TelemetryCallback(EventWriter(log_dir, w), c).on_log(args, state, control, logs)
OnLog(w, c, state, logs) ==
    /\ UNCHANGED <<dataVars, pipeVars, registryVars, configVars, trainVars, liveVars, uiVars>>
    /\ dirExists
    /\ LET e == OnLogEvent(c, state, logs)
       IN IF LogsFalsy(logs)
          THEN /\ ret' = Ret("on_log", w, 0, <<>>, 0, "skipped")
               /\ UNCHANGED <<files, written>>
          ELSE IF ~RunEventValid(e.step, e.learning_rate)
          THEN /\ ret' = Ret("on_log", w, 0, <<>>, 0, "ValidationError")
               /\ UNCHANGED <<files, written>>
          ELSE /\ ret' = Ret("on_log", w, 0, <<>>, 0, "")
               /\ TotalWritten < MaxWrites
               /\ DoWrite(w, e)
    /\ UNCHANGED dirExists

\* The events EventReader.read_all parses, when every line validates.
ParsedEvents(f) == [i \in 1..Len(Lines(f)) |-> ParseLine(Lines(f)[i])]

AllLinesValid(f) == \A i \in 1..Len(Lines(f)) : LineValid(Lines(f)[i])

\* The exception of the first line that read_all cannot turn into an event.
ReadError(f) ==
    LET bad == {i \in 1..Len(Lines(f)) : ~LineValid(Lines(f)[i])}
        first == CHOOSE i \in bad : \A j \in bad : i <= j
    IN IF IsTorn(Lines(f)[first]) THEN "JSONDecodeError" ELSE "ValidationError"

\* EventReader(log_dir, r).read_all()
ReadAll(r) ==
    /\ UNCHANGED <<dataVars, pipeVars, registryVars, configVars, trainVars, liveVars, uiVars>>
    /\ IF LogFile(r) \notin DOMAIN files
       THEN ret' = Ret("read_all", r, 0, <<>>, 0, "")
       ELSE IF AllLinesValid(LogFile(r))
       THEN ret' = Ret("read_all", r, 0, ParsedEvents(LogFile(r)), 0, "")
       ELSE ret' = Ret("read_all", r, 0, <<>>, 0, ReadError(LogFile(r)))
    /\ UNCHANGED <<dirExists, files, written>>

\* Python s[start:] for any integer start.
SliceFrom(s, start) ==
    LET i == IF start < 0
             THEN (IF Len(s) + start < 0 THEN 0 ELSE Len(s) + start)
             ELSE (IF start > Len(s) THEN Len(s) ELSE start)
    IN SubSeq(s, i + 1, Len(s))

\* all_events[-n:]
TailSlice(all_events, n) == SliceFrom(all_events, 0 - n)

\* EventReader(log_dir, r).tail(n)
TailOp(r, n) ==
    /\ UNCHANGED <<dataVars, pipeVars, registryVars, configVars, trainVars, liveVars, uiVars>>
    /\ IF LogFile(r) \notin DOMAIN files
       THEN ret' = Ret("tail", r, n, TailSlice(<<>>, n), 0, "")
       ELSE IF AllLinesValid(LogFile(r))
       THEN ret' = Ret("tail", r, n, TailSlice(ParsedEvents(LogFile(r)), n), 0, "")
       ELSE ret' = Ret("tail", r, n, <<>>, 0, ReadError(LogFile(r)))
    /\ UNCHANGED <<dirExists, files, written>>

\* sum(1 for line in f if line.strip()): a serialized event is never blank.
CountLines(f) == Len(Lines(f))

\* EventReader(log_dir, r).count()
Count(r) ==
    /\ UNCHANGED <<dataVars, pipeVars, registryVars, configVars, trainVars, liveVars, uiVars>>
    /\ ret' = Ret("count", r, 0, <<>>,
                  IF LogFile(r) \in DOMAIN files THEN CountLines(LogFile(r)) ELSE 0,
                  "")
    /\ UNCHANGED <<dirExists, files, written>>

\* What EventReader.list_runs(log_dir) returns.
ListRunsOf(exists, fs) ==
    IF ~exists THEN <<>> ELSE Sorted({Stem(f) : f \in GlobOf(fs)})

ListRunsResult == ListRunsOf(dirExists, files)

\* EventReader.list_runs(log_dir)
ListRuns ==
    /\ UNCHANGED <<dataVars, pipeVars, registryVars, configVars, trainVars, liveVars, uiVars>>
    /\ ret' = Ret("list_runs", <<>>, 0, ListRunsResult, 0, "")
    /\ UNCHANGED <<dirExists, files, written>>

Next ==
    \/ \E r \in RunIds : NewWriter(r)
    \/ \E r \in RunIds : NewReader(r)
    \/ \E w \in RunIds : \E e \in SampleEvents(w) : Write(w, e)
    \/ \E w \in RunIds, call \in OnLogCalls : OnLog(w, w, call[1], call[2])
    \/ \E r \in RunIds : ReadAll(r)
    \/ \E r \in RunIds, n \in 0..MaxTail : TailOp(r, n)
    \/ \E r \in RunIds : Count(r)
    \/ ListRuns

Spec == Init /\ [][Next]_vars

\* ------------------------------------- a reader beside a running writer

(***************************************************************************)
(* The dashboard polls a run from its own process while training appends   *)
(* to it.  EventWriter.write opens the file for append, which creates it,  *)
(* buffers the line, and hands it to the operating system when the file    *)
(* is closed.  Nothing orders that against a reader: the line may show up  *)
(* whole, or a reader may find the file with only a part of it.  ret holds *)
(* what the reader got last.                                               *)
(***************************************************************************)

\* Events with finite metrics, so that every finished line parses.
LiveEvents(w) == {e \in SampleEvents(w) : e.loss.k = "num"}

\* open(log_file, "a") creates the file when it is not there.
CreateFile(f) ==
    IF f \in DOMAIN files THEN files
    ELSE [g \in DOMAIN files \cup {f} |-> IF g = f THEN <<>> ELSE files[g]]

\* The rest of a torn line arrives.
CompleteLine(f, line) ==
    [files EXCEPT ![f] = Append(SubSeq(@, 1, Len(@) - 1), line)]

\* EventWriter(log_dir, w).write(e) up to f.write: the file is open and
\* the line is in the buffer.
WriteOpen(w, e) ==
    /\ dirExists
    /\ inflight.stage = "none"
    /\ TotalWritten < MaxWrites
    /\ files' = CreateFile(LogFile(w))
    /\ inflight' = [stage |-> "open", run |-> w, event |-> e]
    /\ UNCHANGED <<dirExists, written, ret, dataVars, pipeVars, registryVars,
                   configVars, trainVars, uiVars>>

\* Leaving the with block flushes the buffer: the whole line, or first a
\* part of it.
WriteFlush(whole) ==
    /\ inflight.stage = "open"
    /\ IF whole
       THEN /\ DoWrite(inflight.run, inflight.event)
            /\ inflight' = NoWrite
       ELSE /\ files' = AppendLine(LogFile(inflight.run), TornLine)
            /\ inflight' = [inflight EXCEPT !.stage = "torn"]
            /\ UNCHANGED written
    /\ UNCHANGED <<dirExists, ret, dataVars, pipeVars, registryVars,
                   configVars, trainVars, uiVars>>

\* The flush ends and write returns.
WriteRest ==
    /\ inflight.stage = "torn"
    /\ files' = CompleteLine(LogFile(inflight.run), ModelDumpJson(inflight.event))
    /\ written' = [written EXCEPT ![inflight.run] = Append(@, inflight.event)]
    /\ inflight' = NoWrite
    /\ UNCHANGED <<dirExists, ret, dataVars, pipeVars, registryVars,
                   configVars, trainVars, uiVars>>

NextLive ==
    \/ \E r \in RunIds : NewWriter(r)
    \/ \E w \in RunIds : \E e \in LiveEvents(w) : WriteOpen(w, e)
    \/ \E whole \in BOOLEAN : WriteFlush(whole)
    \/ WriteRest
    \/ \E r \in RunIds : ReadAll(r)
    \/ \E r \in RunIds, n \in 0..MaxTail : TailOp(r, n)
    \/ \E r \in RunIds : Count(r)

SpecLive == Init /\ [][NextLive]_vars

\* ------------------------------------------------ preference data: texts

(***************************************************************************)
(* A text is a sequence of tokens.  "H" is one occurrence of the          *)
(* delimiter "\n\nHuman: ", "A" one occurrence of "\n\nAssistant: ", "w"   *)
(* a whitespace character, "x" and "y" other characters.  The two          *)
(* delimiters cannot overlap each other or themselves, so every string     *)
(* has exactly one such reading.  "h" and "a" are the words "Human:" and   *)
(* "Assistant:" that str.strip leaves of a delimiter at the edge of a      *)
(* text.                                                                   *)
(***************************************************************************)
Alphabet == {"H", "A", "w", "x"}

RECURSIVE SeqsUpTo(_, _)
SeqsUpTo(S, n) ==
    IF n = 0 THEN {<<>>}
    ELSE LET shorter == SeqsUpTo(S, n - 1)
         IN shorter \cup {Append(t, c) : t \in shorter, c \in S}

\* Transcripts of the shape the datasets hold, after tests/conftest.py.
SampleTranscripts ==
    { <<"H", "x", "A", "x">>, <<"H", "x", "A", "y">>,
      <<"H", "x", "A", "x", "H", "y", "A", "x">>, <<"H", "A", "x">> }

Texts == SeqsUpTo(Alphabet, MaxText) \cup SampleTranscripts

\* dict.get(key, "")
GetOr(opt, default) == IF opt.has THEN opt.text ELSE default

OptTexts == {Absent} \cup {Present(t) : t \in Texts}

\* Raw records: every pair of transcripts, without a prompt field, with an
\* empty one and with an explicit one; some with a source field.
Rows ==
    { MkRow(p, c, r, Absent) :
        p \in {Absent, Present(<<>>), Present(<<"w", "x">>)},
        c \in OptTexts, r \in OptTexts }
    \cup { MkRow(Present(<<"x">>), c, r, Present(<<"x", "y">>)) :
        c \in {Absent, Present(<<>>), Present(<<"x">>)},
        r \in {Present(<<>>), Present(<<"x", "w">>)} }

RecordIds == {<<0>>, <<7>>}

\* str.strip at the left edge: whitespace goes, and so does the "\n\n" of a
\* delimiter that stands there.
RECURSIVE LStrip(_)
LStrip(t) ==
    IF t = <<>> THEN <<>>
    ELSE IF t[1] = "w" THEN LStrip(Tail(t))
    ELSE IF t[1] = "H" THEN <<"h", "w">> \o Tail(t)
    ELSE IF t[1] = "A" THEN <<"a", "w">> \o Tail(t)
    ELSE t

\* str.strip at the right edge: whitespace goes, and so does the " " that
\* ends a delimiter standing there.
RECURSIVE RStrip(_)
RStrip(t) ==
    IF t = <<>> THEN <<>>
    ELSE LET front == SubSeq(t, 1, Len(t) - 1)
             last == t[Len(t)]
         IN IF last = "w" THEN RStrip(front)
            ELSE IF last = "H" THEN front \o <<"w", "w", "h">>
            ELSE IF last = "A" THEN front \o <<"w", "w", "a">>
            ELSE t

\* str.strip()
Strip(t) == LStrip(RStrip(LStrip(t)))

\* str.split(delim)[-1]: the text after the last occurrence of delim.
LastPart(t, delim) ==
    LET hits == {i \in 1..Len(t) : t[i] = delim}
    IN IF hits = {} THEN t
       ELSE SubSeq(t, (CHOOSE i \in hits : \A j \in hits : j <= i) + 1, Len(t))

\* len(str.split(delim))
NumParts(t, delim) == Cardinality({i \in 1..Len(t) : t[i] = delim}) + 1

\* s[:s.find(delim)] when delim occurs, s otherwise.
CutAtFirst(t, delim) ==
    LET hits == {i \in 1..Len(t) : t[i] = delim}
    IN IF hits = {} THEN t
       ELSE SubSeq(t, 1, (CHOOSE i \in hits : \A j \in hits : i <= j) - 1)

\* ------------------------------------------- core/data/formatters.py

PreferenceRecord(id, prompt, chosen, rejected, source) ==
    [id |-> id, prompt |-> prompt, chosen |-> chosen, rejected |-> rejected,
     source |-> source, metadata |-> {}]

\* Mutant: the first segment is taken instead of the last.
ExtractFirstSegment(conversation) ==
    IF NumParts(conversation, "A") < 2 THEN Strip(conversation)
    ELSE Strip(CutAtFirst(conversation, "A"))

\* formatters._extract_last_assistant
ExtractLastAssistant(conversation) ==
    IF NumParts(conversation, "A") < 2 THEN Strip(conversation)
    ELSE Strip(LastPart(conversation, "A"))

\* formatters._extract_shared_prompt
ExtractSharedPrompt(chosen, rejected) ==
    IF NumParts(chosen, "H") < 2 THEN Strip(chosen)
    ELSE Strip(CutAtFirst(LastPart(chosen, "H"), "A"))

\* What AnthropicHHFormatter.format(raw_record, record_id) returns or raises.
FormatHHResult(raw_record, record_id) ==
    LET chosen_text == GetOr(raw_record.chosen, <<>>)
        rejected_text == GetOr(raw_record.rejected, <<>>)
        prompt == ExtractSharedPrompt(chosen_text, rejected_text)
        chosen_response == ExtractLastAssistant(chosen_text)
        rejected_response == ExtractLastAssistant(rejected_text)
    IN IF chosen_response = <<>> \/ rejected_response = <<>>
       THEN Out("hh_format", record_id, "ValueError", <<>>)
       ELSE Out("hh_format", record_id, "",
                <<PreferenceRecord(record_id, prompt, chosen_response,
                                   rejected_response, <<"anthropic_hh">>)>>)

\* Mutant: the fields are stripped on the way through.
FormatStandardStripped(raw_record, record_id) ==
    IF ~raw_record.prompt.has \/ ~raw_record.chosen.has \/ ~raw_record.rejected.has
    THEN Out("standard_format", record_id, "KeyError", <<>>)
    ELSE Out("standard_format", record_id, "",
             <<PreferenceRecord(record_id, Strip(raw_record.prompt.text),
                                Strip(raw_record.chosen.text),
                                Strip(raw_record.rejected.text),
                                GetOr(raw_record.source, <<"standard">>))>>)

\* What StandardFormatter.format(raw_record, record_id) returns or raises.
FormatStandardResult(raw_record, record_id) ==
    IF ~raw_record.prompt.has \/ ~raw_record.chosen.has \/ ~raw_record.rejected.has
    THEN Out("standard_format", record_id, "KeyError", <<>>)
    ELSE Out("standard_format", record_id, "",
             <<PreferenceRecord(record_id, raw_record.prompt.text,
                                raw_record.chosen.text, raw_record.rejected.text,
                                GetOr(raw_record.source, <<"standard">>))>>)

\* ---------------------------------------------- core/data/pipeline.py

\* Mutant: the first human turn is taken instead of the last.
GetFirstHumanTurn(conversation) ==
    IF NumParts(conversation, "H") < 2 THEN Strip(conversation)
    ELSE Strip(CutAtFirst(CutAtFirst(Tail(SubSeq(conversation,
              CHOOSE i \in 1..Len(conversation) :
                  conversation[i] = "H" /\ \A j \in 1..(i - 1) : conversation[j] # "H",
              Len(conversation))), "H"), "A"))

\* pipeline._get_last_human_turn
GetLastHumanTurn(conversation) ==
    IF NumParts(conversation, "H") < 2 THEN Strip(conversation)
    ELSE Strip(CutAtFirst(LastPart(conversation, "H"), "A"))

\* pipeline._extract_prompt
ExtractPrompt(r) ==
    IF r.prompt.has /\ r.prompt.text # <<>> THEN r.prompt.text
    ELSE GetLastHumanTurn(GetOr(r.chosen, <<>>))

\* Mutant: the last segment is returned as it stands, without strip().
ExtractResponseNoStrip(text) ==
    IF NumParts(text, "A") < 2 THEN Strip(text)
    ELSE LastPart(text, "A")

\* pipeline._extract_response
ExtractResponse(text) ==
    IF NumParts(text, "A") < 2 THEN Strip(text)
    ELSE Strip(LastPart(text, "A"))

\* str(idx): the decimal digits of idx.
RECURSIVE DecStr(_)
DecStr(n) == IF n < 10 THEN <<n>> ELSE Append(DecStr(n \div 10), n % 10)

\* The body of validate's loop for the row at 0-based index idx: the record,
\* or nothing when the row raises.
ValidateRow(r, idx) ==
    LET prompt == ExtractPrompt(r)
        chosen == ExtractResponse(GetOr(r.chosen, <<>>))
        rejected == ExtractResponse(GetOr(r.rejected, <<>>))
    IN IF prompt = <<>> \/ chosen = <<>> \/ rejected = <<>>
       THEN <<>>
       ELSE <<PreferenceRecord(DecStr(idx), prompt, chosen, rejected, <<"pipeline">>)>>

\* Mutant: the loop ends at the first row that raises.
RECURSIVE ValidRecordsUntilError(_, _)
ValidRecordsUntilError(dataset, k) ==
    IF k = 0 THEN <<>>
    ELSE IF \E i \in 1..k : ValidateRow(dataset[i], i - 1) = <<>>
         THEN ValidRecordsUntilError(dataset, k - 1)
         ELSE ValidRecordsUntilError(dataset, k - 1) \o ValidateRow(dataset[k], k - 1)

\* Mutant: a record's id is its position among the valid records.
RECURSIVE ValidRecordsRenumbered(_, _)
ValidRecordsRenumbered(dataset, k) ==
    IF k = 0 THEN <<>>
    ELSE LET before == ValidRecordsRenumbered(dataset, k - 1)
         IN before \o ValidateRow(dataset[k], Len(before))

\* valid_records after the loop over dataset rows 1..k.
RECURSIVE ValidRecords(_, _)
ValidRecords(dataset, k) ==
    IF k = 0 THEN <<>>
    ELSE ValidRecords(dataset, k - 1) \o ValidateRow(dataset[k], k - 1)

\* What DataPipeline.validate(dataset) returns or raises.
ValidateResult(dataset) ==
    LET valid_records == ValidRecords(dataset, Len(dataset))
    IN IF valid_records = <<>>
       THEN Out("validate", <<>>, "ValueError", <<>>)
       ELSE Out("validate", <<>>, "", valid_records)

InitData ==
    /\ dirExists = FALSE
    /\ files = <<>>
    /\ written = [r \in RunIds |-> <<>>]
    /\ ret = Ret("init", <<>>, 0, <<>>, 0, "")
    /\ row \in Rows
    /\ out = NoOut
    /\ PipeIdle /\ RegistryIdle /\ ConfigIdle /\ RestIdle

\* AnthropicHHFormatter.format(row, record_id)
FormatHH(record_id) ==
    /\ out' = FormatHHResult(row, record_id)
    /\ UNCHANGED <<row, telemetryVars, pipeVars, registryVars, configVars, trainVars, liveVars, uiVars>>

\* StandardFormatter.format(row, record_id)
FormatStandard(record_id) ==
    /\ out' = FormatStandardResult(row, record_id)
    /\ UNCHANGED <<row, telemetryVars, pipeVars, registryVars, configVars, trainVars, liveVars, uiVars>>

\* DataPipeline().validate(Dataset.from_list([row]))
ValidateOne ==
    /\ out' = ValidateResult(<<row>>)
    /\ UNCHANGED <<row, telemetryVars, pipeVars, registryVars, configVars, trainVars, liveVars, uiVars>>

NextData ==
    \/ \E id \in RecordIds : FormatHH(id)
    \/ \E id \in RecordIds : FormatStandard(id)
    \/ ValidateOne

SpecData == InitData /\ [][NextData]_vars

\* ------------------------------------- text helpers, called on their own

\* _extract_last_assistant(row["chosen"])
CallExtractLastAssistant ==
    /\ row.chosen.has
    /\ out' = Returned("_extract_last_assistant", row.chosen.text,
                       ExtractLastAssistant(row.chosen.text))
    /\ UNCHANGED <<row, telemetryVars, pipeVars, registryVars, configVars, trainVars, liveVars, uiVars>>

\* _extract_response(row["rejected"])
CallExtractResponse ==
    /\ row.rejected.has
    /\ out' = Returned("_extract_response", row.rejected.text,
                       ExtractResponse(row.rejected.text))
    /\ UNCHANGED <<row, telemetryVars, pipeVars, registryVars, configVars, trainVars, liveVars, uiVars>>

\* _get_last_human_turn(row["chosen"])
CallGetLastHumanTurn ==
    /\ row.chosen.has
    /\ out' = Returned("_get_last_human_turn", row.chosen.text,
                       GetLastHumanTurn(row.chosen.text))
    /\ UNCHANGED <<row, telemetryVars, pipeVars, registryVars, configVars, trainVars, liveVars, uiVars>>

\* _extract_shared_prompt(row["chosen"], row["rejected"])
CallExtractSharedPrompt ==
    /\ row.chosen.has /\ row.rejected.has
    /\ out' = Returned("_extract_shared_prompt", row.chosen.text,
                       ExtractSharedPrompt(row.chosen.text, row.rejected.text))
    /\ UNCHANGED <<row, telemetryVars, pipeVars, registryVars, configVars, trainVars, liveVars, uiVars>>

\* _extract_prompt(row)
CallExtractPrompt ==
    /\ out' = Returned("_extract_prompt", GetOr(row.chosen, <<>>), ExtractPrompt(row))
    /\ UNCHANGED <<row, telemetryVars, pipeVars, registryVars, configVars, trainVars, liveVars, uiVars>>

NextText ==
    \/ CallExtractLastAssistant
    \/ CallExtractResponse
    \/ CallGetLastHumanTurn
    \/ CallExtractSharedPrompt
    \/ CallExtractPrompt

SpecText == InitData /\ [][NextText]_vars

\* --------------------------------- core/data/pipeline.py: DataPipeline

\* Rows of a source dataset: an Anthropic-HH pair, a row with explicit
\* fields, a pair whose chosen transcript ends with an empty response, and
\* a row without values.
SampleRows ==
    { MkRow(Absent, Present(<<"H", "x", "A", "x">>), Present(<<"H", "x", "A", "y">>), Absent),
      MkRow(Present(<<"x">>), Present(<<"x", "w">>), Present(<<"y">>), Absent),
      MkRow(Absent, Present(<<"H", "x", "A">>), Present(<<"H", "x", "A", "y">>), Absent),
      NoRow }

\* A longer dataset, with valid rows at the indices 2, 9 and 10 only.
LongSource ==
    [i \in 1..12 |->
        IF i \in {3, 10, 11}
        THEN MkRow(Absent, Present(<<"H", "x", "A", "x">>),
                   Present(<<"H", "x", "A", "y">>), Absent)
        ELSE NoRow]

Sources == SeqsUpTo(SampleRows, MaxRows) \cup {LongSource}

MaxSamplesValues == {PyNone} \cup {Num(k) : k \in 0..MaxRows}

\* bool(self.max_samples): None and 0 are falsy.
Truthy(ms) == ms.k = "num" /\ ms.v # 0

\* What load returns for a source that holds rows: the truncation of
\* lines 69-71.
LoadResult(ms, rows) ==
    IF Truthy(ms) /\ Len(rows) > ms.v THEN SubSeq(rows, 1, ms.v) ELSE rows

\* errors after validate's loop over dataset rows 1..k.
RECURSIVE ValidateErrors(_, _)
ValidateErrors(dataset, k) ==
    IF k = 0 THEN 0
    ELSE ValidateErrors(dataset, k - 1)
             + (IF ValidateRow(dataset[k], k - 1) = <<>> THEN 1 ELSE 0)

\* Dataset.from_list(mapping): the columns are the keys of the first row.
DatasetFromList(mapping) ==
    [column_names |-> IF mapping = <<>> THEN {} ELSE DOMAIN mapping[1],
     rows |-> mapping]

\* Mutant: chosen and rejected change places.
FormatForDpoSwapped(recs) ==
    DatasetFromList([i \in 1..Len(recs) |->
        [prompt |-> recs[i].prompt, chosen |-> recs[i].rejected,
         rejected |-> recs[i].chosen]])

\* What format_for_dpo(records) returns.
FormatForDpoResult(recs) ==
    DatasetFromList([i \in 1..Len(recs) |->
        [prompt |-> recs[i].prompt, chosen |-> recs[i].chosen,
         rejected |-> recs[i].rejected]])

InitPipe ==
    /\ dirExists = FALSE
    /\ files = <<>>
    /\ written = [r \in RunIds |-> <<>>]
    /\ ret = Ret("init", <<>>, 0, <<>>, 0, "")
    /\ row = NoRow
    /\ out = NoOut
    /\ max_samples \in MaxSamplesValues
    /\ sourceRows \in Sources
    /\ raw_dataset = <<>>
    /\ validated = <<>>
    /\ RegistryIdle /\ ConfigIdle /\ RestIdle

\* raw_dataset = pipeline.load(source)
Load ==
    /\ raw_dataset' = LoadResult(max_samples, sourceRows)
    /\ out' = Returned("load", <<>>, raw_dataset')
    /\ UNCHANGED <<row, max_samples, sourceRows, validated,
                   telemetryVars, registryVars, configVars, trainVars, liveVars, uiVars>>

\* records = pipeline.validate(raw_dataset)
Validate ==
    LET res == ValidateResult(raw_dataset)
    IN /\ out' = res @@ [errors |-> ValidateErrors(raw_dataset, Len(raw_dataset))]
       /\ validated' = IF res.err = "" THEN res.records ELSE validated
       /\ UNCHANGED <<row, max_samples, sourceRows, raw_dataset,
                      telemetryVars, registryVars, configVars, trainVars, liveVars, uiVars>>

\* pipeline.format_for_dpo(records), records being what validate returned
FormatForDpo ==
    /\ validated # <<>>
    /\ out' = Returned("format_for_dpo", validated, FormatForDpoResult(validated))
    /\ UNCHANGED <<row, pipeVars, telemetryVars, registryVars, configVars, trainVars, liveVars, uiVars>>

\* The characters of the serialized content, as small numbers: one per text
\* token, per source name and per piece of JSON syntax.
Code ==
    [H |-> 1, A |-> 2, w |-> 3, x |-> 4, y |-> 5, h |-> 6, a |-> 7,
     pipeline |-> 8, anthropic_hh |-> 9, standard |-> 10,
     open |-> 11, close |-> 12, comma |-> 13,
     k_chosen |-> 14, k_id |-> 15, k_metadata |-> 16, k_prompt |-> 17,
     k_rejected |-> 18, k_source |-> 19]

Bytes(text) == [i \in 1..Len(text) |-> Code[text[i]]]

\* The decimal digits of an id as characters ("0" is 48).
IdBytes(id) == [i \in 1..Len(id) |-> 48 + id[i]]

\* json.dumps(r.model_dump(), sort_keys=True): the keys in sorted order.
DumpRecord(r) ==
    <<Code.open, Code.k_chosen>> \o Bytes(r.chosen)
        \o <<Code.k_id>> \o IdBytes(r.id)
        \o <<Code.k_metadata, Code.k_prompt>> \o Bytes(r.prompt)
        \o <<Code.k_rejected>> \o Bytes(r.rejected)
        \o <<Code.k_source>> \o Bytes(r.source)
        \o <<Code.close>>

\* json.dumps([r.model_dump() for r in records], sort_keys=True, default=str):
\* the records in list order.
RECURSIVE DumpRecords(_, _)
DumpRecords(recs, k) ==
    IF k = 0 THEN <<>>
    ELSE DumpRecords(recs, k - 1)
             \o (IF k > 1 THEN <<Code.comma>> ELSE <<>>) \o DumpRecord(recs[k])

JsonDumps(recs) == <<Code.open>> \o DumpRecords(recs, Len(recs)) \o <<Code.close>>

RECURSIVE Roll(_, _)
Roll(content, k) ==
    IF k = 0 THEN 7
    ELSE (Roll(content, k - 1) * 31 + content[k]) % 65521

\* hashlib.sha256(content).hexdigest(): 64 hexadecimal digits that depend on
\* the content only. SHA-256 is not computed; a rolling digest of the same
\* shape stands for it.
Sha256HexDigest(content) ==
    LET h == Roll(content, Len(content))
        nibble == <<h % 16, (h \div 16) % 16, (h \div 256) % 16, (h \div 4096) % 16>>
    IN [lane \in 1..64 |-> (nibble[((lane - 1) % 4) + 1] + (lane - 1) \div 4) % 16]

DatasetManifest(name, version, num_records, checksum) ==
    [name |-> name, version |-> version, num_records |-> num_records,
     schema_version |-> "1.0", checksum |-> checksum]

\* Mutant: the dataset name is hashed with the records.
CreateManifestNamed(name, recs, version) ==
    LET content == JsonDumps(recs) \o (IF name = "ds" THEN <<Code.x>> ELSE <<Code.y>>)
        checksum == SubSeq(Sha256HexDigest(content), 1, 16)
    IN DatasetManifest(name, version, Len(recs), checksum)

\* What create_manifest(name, records, version) returns.
CreateManifestResult(name, recs, version) ==
    LET content == JsonDumps(recs)
        checksum == SubSeq(Sha256HexDigest(content), 1, 16)
    IN DatasetManifest(name, version, Len(recs), checksum)

ManifestNames == {"ds", "hh_rlhf"}
ManifestVersions == {"1.0", "2.0"}

\* pipeline.create_manifest(name, records, version), records being what
\* validate returned
CreateManifest(name, version) ==
    /\ validated # <<>>
    /\ out' = Returned("create_manifest", validated,
                       CreateManifestResult(name, validated, version))
    /\ UNCHANGED <<row, pipeVars, telemetryVars, registryVars, configVars, trainVars, liveVars, uiVars>>

NextPipe ==
    \/ Load
    \/ Validate
    \/ FormatForDpo
    \/ \E name \in ManifestNames, version \in ManifestVersions :
           CreateManifest(name, version)

SpecPipe == InitPipe /\ [][NextPipe]_vars

\* ------------------------------------------ core/algorithms/registry.py

\* Algorithm names as character codes: "dpo", "ppo", "orpo", "DPO", "kto".
NameDpo == <<100, 112, 111>>
NamePpo == <<112, 112, 111>>
NameOrpo == <<111, 114, 112, 111>>
NameUpperDpo == <<68, 80, 79>>
NameKto == <<107, 116, 111>>

\* Names handed to register, and names handed to get.
RegisterNames == {NameDpo, NamePpo, NameOrpo, NameUpperDpo}
LookupNames == RegisterNames \cup {NameKto}

\* The plugin classes of the package; both implement every abstract method.
PluginClasses == {"DPOAlgorithm", "PPOAlgorithm"}

\* register(name)(cls): _REGISTRY[name] = cls
RegisterResult(reg, name, cls) ==
    [n \in DOMAIN reg \cup {name} |-> IF n = name THEN cls ELSE reg[n]]

\* _REGISTRY once the algorithms package is imported: dpo.py, then ppo.py.
ImportedRegistry ==
    RegisterResult(RegisterResult(<<>>, NameDpo, "DPOAlgorithm"),
                   NamePpo, "PPOAlgorithm")

\* Mutant: an unknown name falls back to the "dpo" plugin.
LookupOrDpo(reg, name) ==
    IF name \notin DOMAIN reg
    THEN [err |-> "", cls |-> reg[NameDpo]]
    ELSE [err |-> "", cls |-> reg[name]]

\* The test and the lookup of AlgorithmRegistry.get: the class to
\* instantiate, or KeyError.
Lookup(reg, name) ==
    IF name \notin DOMAIN reg
    THEN [err |-> "KeyError", cls |-> ""]
    ELSE [err |-> "", cls |-> reg[name]]

\* AlgorithmRegistry.available()
AvailableResult(reg) == Sorted(DOMAIN reg)

InitRegistry ==
    /\ dirExists = FALSE
    /\ files = <<>>
    /\ written = [r \in RunIds |-> <<>>]
    /\ ret = Ret("init", <<>>, 0, <<>>, 0, "")
    /\ row = NoRow
    /\ out = NoOut
    /\ PipeIdle /\ ConfigIdle /\ RestIdle
    /\ registry = ImportedRegistry
    /\ instances = 0

\* @register(name) applied to cls
Register(name, cls) ==
    /\ registry' = RegisterResult(registry, name, cls)
    /\ out' = Returned("register", name, cls)
    /\ UNCHANGED <<row, instances, telemetryVars, pipeVars, configVars, trainVars, liveVars, uiVars>>

\* AlgorithmRegistry.get(name)
Get(name) ==
    LET found == Lookup(registry, name)
    IN IF found.err # ""
       THEN /\ out' = Out("get", name, found.err, <<>>)
            /\ UNCHANGED <<row, registryVars, telemetryVars, pipeVars, configVars, trainVars, liveVars, uiVars>>
       ELSE /\ instances < MaxInstances
            /\ instances' = instances + 1
            /\ out' = Returned("get", name, [cls |-> found.cls, oid |-> instances'])
            /\ UNCHANGED <<row, registry, telemetryVars, pipeVars, configVars, trainVars, liveVars, uiVars>>

\* AlgorithmRegistry.available()
Available ==
    /\ out' = Returned("available", <<>>, AvailableResult(registry))
    /\ UNCHANGED <<row, registryVars, telemetryVars, pipeVars, configVars, trainVars, liveVars, uiVars>>

NextRegistry ==
    \/ \E name \in RegisterNames, cls \in PluginClasses : Register(name, cls)
    \/ \E name \in LookupNames : Get(name)
    \/ Available

SpecRegistry == InitRegistry /\ [][NextRegistry]_vars

\* ------------------------------------ utils/config.py, contracts/training.py

\* Parsed YAML values, tagged with their type. A learning rate is counted in
\* units of 1e-5.
YVal(t, n, str, b, m) == [t |-> t, n |-> n, s |-> str, b |-> b, m |-> m]
YInt(n) == YVal("int", n, "", FALSE, <<>>)
YStr(str) == YVal("str", 0, str, FALSE, <<>>)
YBool(b) == YVal("bool", 0, "", b, <<>>)
YNull == YVal("null", 0, "", FALSE, <<>>)
YMap(m) == YVal("map", 0, "", FALSE, m)
EmptyMap == YMap(<<>>)

\* The Python value of a scalar.
Scalar(x) ==
    CASE x.t = "int" -> x.n
      [] x.t = "str" -> x.s
      [] x.t = "bool" -> x.b

\* The "model" section of a config file: absent, empty, null (a key without
\* a value), or a mapping with some of its keys.
ModelSections ==
    { <<>>,
      "model" :> EmptyMap,
      "model" :> YNull,
      "model" :> YMap("name" :> YStr("TinyLlama")),
      "model" :> YMap("name" :> YStr("TinyLlama") @@ "max_length" :> YInt(63)),
      "model" :> YMap("max_length" :> YInt(64)),
      "model" :> YMap("quantization" :> EmptyMap),
      "model" :> YMap("quantization" :> YNull),
      "model" :> YMap("quantization" :> YMap("bits" :> YInt(3))),
      "model" :> YMap("quantization" :> YMap("bits" :> YInt(8))),
      "model" :> YMap("name" :> YStr("TinyLlama")
                      @@ "quantization" :> YMap("bits" :> YInt(9))) }

TrainingSections ==
    { <<>>,
      "training" :> EmptyMap,
      "training" :> YNull,
      "training" :> YMap("batch_size" :> YInt(0)),
      "training" :> YMap("batch_size" :> YInt(1) @@ "algorithm" :> YStr("ppo")),
      "training" :> YMap("gradient_accumulation_steps" :> YInt(0)),
      "training" :> YMap("learning_rate" :> YInt(0)),
      "training" :> YMap("learning_rate" :> YInt(1) @@ "num_epochs" :> YInt(2)),
      "training" :> YMap("num_epochs" :> YInt(0)),
      "training" :> YMap("seed" :> YInt(7) @@ "output_dir" :> YStr("runs")
                         @@ "bf16" :> YBool(FALSE)
                         @@ "gradient_accumulation_steps" :> YInt(1)) }

AdapterSections ==
    { <<>>, "adapter" :> YNull, "adapter" :> YMap("type" :> YStr("qlora")) }

\* What yaml.safe_load gives for the files tried: None for an empty file,
\* otherwise a mapping of sections.
RawConfigs ==
    {YNull} \cup
    { YMap(m @@ tr @@ ad) :
        m \in ModelSections, tr \in TrainingSections, ad \in AdapterSections }

ConfigFiles == {NoFile} \cup {[exists |-> TRUE, raw |-> raw] : raw \in RawConfigs}

\* d.get(key, default) on a dict d
DictGet(d, key, default) == IF key \in DOMAIN d.m THEN d.m[key] ELSE default

\* config._flatten_config(raw): the keyword arguments, or AttributeError when
\* .get is called on something that is not a dict.
FlattenConfig(raw) ==
    IF raw.t # "map" THEN [err |-> "AttributeError"]
    ELSE LET model_cfg == DictGet(raw, "model", EmptyMap)
             training_cfg == DictGet(raw, "training", EmptyMap)
             adapter_cfg == DictGet(raw, "adapter", EmptyMap)
         IN IF model_cfg.t # "map" \/ training_cfg.t # "map" \/ adapter_cfg.t # "map"
            THEN [err |-> "AttributeError"]
            ELSE LET quantization == DictGet(model_cfg, "quantization", EmptyMap)
                 IN IF quantization.t # "map" THEN [err |-> "AttributeError"]
                    ELSE [err |-> "",
                          model_name |-> DictGet(model_cfg, "name", YStr("")),
                          algorithm |-> DictGet(training_cfg, "algorithm", YStr("dpo")),
                          adapter_type |-> DictGet(adapter_cfg, "type", YStr("lora")),
                          quantization_bits |-> DictGet(quantization, "bits", YInt(4)),
                          batch_size |-> DictGet(training_cfg, "batch_size", YInt(4)),
                          gradient_accumulation_steps |->
                              DictGet(training_cfg, "gradient_accumulation_steps", YInt(4)),
                          learning_rate |-> DictGet(training_cfg, "learning_rate", YInt(5)),
                          num_epochs |-> DictGet(training_cfg, "num_epochs", YInt(1)),
                          max_length |-> DictGet(model_cfg, "max_length", YInt(512)),
                          seed |-> DictGet(training_cfg, "seed", YInt(42)),
                          output_dir |-> DictGet(training_cfg, "output_dir", YStr("outputs")),
                          bf16 |-> DictGet(training_cfg, "bf16", YBool(TRUE))]

IsInt(x) == x.t = "int"

\* TrainConfig(**kwargs): the types and ranges of the fields.
TrainConfigValid(kw) ==
    /\ kw.model_name.t = "str"
    /\ kw.algorithm.t = "str"
    /\ kw.adapter_type.t = "str"
    /\ IsInt(kw.quantization_bits)
    /\ kw.quantization_bits.n >= 4 /\ kw.quantization_bits.n <= 8
    /\ IsInt(kw.batch_size) /\ kw.batch_size.n >= 1
    /\ IsInt(kw.gradient_accumulation_steps) /\ kw.gradient_accumulation_steps.n >= 1
    /\ IsInt(kw.learning_rate) /\ kw.learning_rate.n > 0
    /\ IsInt(kw.num_epochs) /\ kw.num_epochs.n >= 1
    /\ IsInt(kw.max_length) /\ kw.max_length.n >= 64
    /\ IsInt(kw.seed)
    /\ kw.output_dir.t = "str"
    /\ kw.bf16.t = "bool"

\* The TrainConfig built from valid keyword arguments.
TrainConfig(kw) ==
    [model_name |-> Scalar(kw.model_name), algorithm |-> Scalar(kw.algorithm),
     adapter_type |-> Scalar(kw.adapter_type),
     quantization_bits |-> Scalar(kw.quantization_bits),
     batch_size |-> Scalar(kw.batch_size),
     gradient_accumulation_steps |-> Scalar(kw.gradient_accumulation_steps),
     learning_rate |-> Scalar(kw.learning_rate), num_epochs |-> Scalar(kw.num_epochs),
     max_length |-> Scalar(kw.max_length), seed |-> Scalar(kw.seed),
     output_dir |-> Scalar(kw.output_dir), bf16 |-> Scalar(kw.bf16)]

\* What load_config(config_path) returns or raises for the file at the path.
LoadConfigResult(file) ==
    IF ~file.exists THEN Out("load_config", <<>>, "FileNotFoundError", <<>>)
    ELSE LET kw == FlattenConfig(file.raw)
         IN IF kw.err # "" THEN Out("load_config", <<>>, kw.err, <<>>)
            ELSE IF ~TrainConfigValid(kw)
                 THEN Out("load_config", <<>>, "ValidationError", <<>>)
                 ELSE Returned("load_config", <<>>, TrainConfig(kw))

InitConfig ==
    /\ dirExists = FALSE
    /\ files = <<>>
    /\ written = [r \in RunIds |-> <<>>]
    /\ ret = Ret("init", <<>>, 0, <<>>, 0, "")
    /\ row = NoRow
    /\ out = NoOut
    /\ PipeIdle /\ RegistryIdle /\ RestIdle
    /\ configFile \in ConfigFiles

\* load_config(config_path)
LoadConfig ==
    /\ out' = LoadConfigResult(configFile)
    /\ UNCHANGED <<row, configFile, telemetryVars, pipeVars, registryVars,
                   trainVars, liveVars, uiVars>>

NextConfig == LoadConfig

SpecConfig == InitConfig /\ [][NextConfig]_vars

\* ------------------------------------------------------- core/trainer.py

\* config.algorithm: any string passes TrainConfig.
TrainAlgorithms == {NameDpo, NamePpo, NameKto}

\* data.max_samples of the raw config.
TrainMaxSamples == {PyNone, Num(1)}

\* The output directory after an earlier complete run.
OldDisk ==
    [output_dir |-> TRUE, manifest |-> "old",
     adapter_model |-> "old", adapter_tokenizer |-> "old"]

\* Mutant: the model is loaded before the manifest is saved.
TrainStepsModelFirst ==
    << "lookup", "load", "validate", "format", "create_manifest",
       "model_load", "mkdir", "save_manifest",
       "training_args", "trainer_class", "trainer_init", "external_train",
       "save_model", "save_tokenizer", "return" >>

\* Mutant: the data is loaded and saved before the algorithm is looked up.
TrainStepsLookupLate ==
    << "load", "validate", "format", "create_manifest",
       "mkdir", "save_manifest", "lookup", "model_load",
       "training_args", "trainer_class", "trainer_init", "external_train",
       "save_model", "save_tokenizer", "return" >>

\* The statements of train, top to bottom.
TrainSteps ==
    << "lookup", "load", "validate", "format", "create_manifest",
       "mkdir", "save_manifest", "model_load",
       "training_args", "trainer_class", "trainer_init", "external_train",
       "save_model", "save_tokenizer", "return" >>

\* A call into a library or the operating system returns or raises.
Outcomes == {"", "Error"}

\* The statement train is at.
AtStep(name) ==
    /\ train.i \in 1..Len(TrainSteps)
    /\ train.err = ""
    /\ TrainSteps[train.i] = name

\* The statement returned (err = "") or raised: an exception leaves train.
AfterStep(name, err) ==
    IF err = ""
    THEN [train EXCEPT !.i = @ + 1, !.at = name, !.done = Append(@, name)]
    ELSE [train EXCEPT !.at = name, !.err = err]

\* What create_training_args of each plugin does.
CreateTrainingArgsResult(cls, outcome) ==
    IF cls = "PPOAlgorithm" THEN "NotImplementedError" ELSE outcome

InitTrain ==
    /\ dirExists = FALSE
    /\ files = <<>>
    /\ written = [r \in RunIds |-> <<>>]
    /\ ret = Ret("init", <<>>, 0, <<>>, 0, "")
    /\ row = NoRow
    /\ out = NoOut
    /\ max_samples \in TrainMaxSamples
    /\ sourceRows \in Sources
    /\ raw_dataset = <<>>
    /\ validated = <<>>
    /\ registry = ImportedRegistry
    /\ instances = 0
    /\ ConfigIdle
    /\ disk \in {EmptyDisk, OldDisk}
    /\ \E a \in TrainAlgorithms :
           train = [NoTrain EXCEPT !.i = 1, !.algorithm = a, !.disk0 = disk]
    /\ inflight = NoWrite
    /\ heap = <<>>
    /\ sessions = <<>>

\* algorithm = AlgorithmRegistry.get(self.config.algorithm)
TrainLookup ==
    /\ AtStep("lookup")
    /\ LET found == Lookup(registry, train.algorithm)
       IN /\ train' = [AfterStep("lookup", found.err) EXCEPT !.cls = found.cls]
          /\ instances' = IF found.err = "" THEN instances + 1 ELSE instances
    /\ UNCHANGED <<disk, registry, telemetryVars, dataVars, pipeVars,
                   configVars, liveVars, uiVars>>

\* raw_dataset = pipeline.load(source, split)
TrainLoad(outcome) ==
    /\ AtStep("load")
    /\ train' = AfterStep("load", outcome)
    /\ raw_dataset' = IF outcome = "" THEN LoadResult(max_samples, sourceRows)
                      ELSE raw_dataset
    /\ UNCHANGED <<disk, max_samples, sourceRows, validated, telemetryVars,
                   dataVars, registryVars, configVars, liveVars, uiVars>>

\* records = pipeline.validate(raw_dataset)
TrainValidate ==
    /\ AtStep("validate")
    /\ LET res == ValidateResult(raw_dataset)
       IN /\ train' = AfterStep("validate", res.err)
          /\ validated' = IF res.err = "" THEN res.records ELSE validated
    /\ UNCHANGED <<disk, max_samples, sourceRows, raw_dataset, telemetryVars,
                   dataVars, registryVars, configVars, liveVars, uiVars>>

\* train_dataset = pipeline.format_for_dpo(records)
TrainFormat ==
    /\ AtStep("format")
    /\ train' = AfterStep("format", "")
    /\ out' = Returned("format_for_dpo", validated, FormatForDpoResult(validated))
    /\ UNCHANGED <<disk, row, telemetryVars, pipeVars, registryVars,
                   configVars, liveVars, uiVars>>

\* manifest = pipeline.create_manifest(name, records)
TrainCreateManifest ==
    /\ AtStep("create_manifest")
    /\ train' = AfterStep("create_manifest", "")
    /\ out' = Returned("create_manifest", validated,
                       CreateManifestResult("hh_rlhf", validated, "1.0"))
    /\ UNCHANGED <<disk, row, telemetryVars, pipeVars, registryVars,
                   configVars, liveVars, uiVars>>

\* output_dir.mkdir(parents=True, exist_ok=True)
TrainMkdir(outcome) ==
    /\ AtStep("mkdir")
    /\ train' = AfterStep("mkdir", outcome)
    /\ disk' = IF outcome = "" THEN [disk EXCEPT !.output_dir = TRUE] ELSE disk
    /\ UNCHANGED <<telemetryVars, dataVars, pipeVars, registryVars,
                   configVars, liveVars, uiVars>>

\* pipeline.save_manifest(manifest, output_dir)
TrainSaveManifest(outcome) ==
    /\ AtStep("save_manifest")
    /\ train' = AfterStep("save_manifest", outcome)
    /\ disk' = IF outcome = ""
               THEN [disk EXCEPT !.output_dir = TRUE, !.manifest = "new"]
               ELSE disk
    /\ UNCHANGED <<telemetryVars, dataVars, pipeVars, registryVars,
                   configVars, liveVars, uiVars>>

\* loaded = ModelLoader.load(self.config)
TrainModelLoad(outcome) ==
    /\ AtStep("model_load")
    /\ train' = AfterStep("model_load", outcome)
    /\ UNCHANGED <<disk, telemetryVars, dataVars, pipeVars, registryVars,
                   configVars, liveVars, uiVars>>

\* training_args = algorithm.create_training_args(self._raw_config)
TrainCreateArgs(outcome) ==
    /\ AtStep("training_args")
    /\ train' = AfterStep("training_args",
                          CreateTrainingArgsResult(train.cls, outcome))
    /\ UNCHANGED <<disk, telemetryVars, dataVars, pipeVars, registryVars,
                   configVars, liveVars, uiVars>>

\* trainer_cls = algorithm.get_trainer_class()
TrainGetTrainerClass(outcome) ==
    /\ AtStep("trainer_class")
    /\ train' = AfterStep("trainer_class", outcome)
    /\ UNCHANGED <<disk, telemetryVars, dataVars, pipeVars, registryVars,
                   configVars, liveVars, uiVars>>

\* trainer = trainer_cls(**trainer_kwargs)
TrainMakeTrainer(outcome) ==
    /\ AtStep("trainer_init")
    /\ train' = AfterStep("trainer_init", outcome)
    /\ UNCHANGED <<disk, telemetryVars, dataVars, pipeVars, registryVars,
                   configVars, liveVars, uiVars>>

\* result = trainer.train()
TrainExternal(outcome) ==
    /\ AtStep("external_train")
    /\ train' = AfterStep("external_train", outcome)
    /\ UNCHANGED <<disk, telemetryVars, dataVars, pipeVars, registryVars,
                   configVars, liveVars, uiVars>>

\* loaded.model.save_pretrained(output_dir / "adapter")
TrainSaveModel(outcome) ==
    /\ AtStep("save_model")
    /\ train' = AfterStep("save_model", outcome)
    /\ disk' = IF outcome = "" THEN [disk EXCEPT !.adapter_model = "new"] ELSE disk
    /\ UNCHANGED <<telemetryVars, dataVars, pipeVars, registryVars,
                   configVars, liveVars, uiVars>>

\* loaded.tokenizer.save_pretrained(output_dir / "adapter")
TrainSaveTokenizer(outcome) ==
    /\ AtStep("save_tokenizer")
    /\ train' = AfterStep("save_tokenizer", outcome)
    /\ disk' = IF outcome = "" THEN [disk EXCEPT !.adapter_tokenizer = "new"]
               ELSE disk
    /\ UNCHANGED <<telemetryVars, dataVars, pipeVars, registryVars,
                   configVars, liveVars, uiVars>>

\* return {...}
TrainReturn ==
    /\ AtStep("return")
    /\ train' = [AfterStep("return", "") EXCEPT !.returned = TRUE]
    /\ UNCHANGED <<disk, telemetryVars, dataVars, pipeVars, registryVars,
                   configVars, liveVars, uiVars>>

NextTrain ==
    \/ TrainLookup
    \/ \E outcome \in Outcomes : TrainLoad(outcome)
    \/ TrainValidate
    \/ TrainFormat
    \/ TrainCreateManifest
    \/ \E outcome \in Outcomes : TrainMkdir(outcome)
    \/ \E outcome \in Outcomes : TrainSaveManifest(outcome)
    \/ \E outcome \in Outcomes : TrainModelLoad(outcome)
    \/ \E outcome \in Outcomes : TrainCreateArgs(outcome)
    \/ \E outcome \in Outcomes : TrainGetTrainerClass(outcome)
    \/ \E outcome \in Outcomes : TrainMakeTrainer(outcome)
    \/ \E outcome \in Outcomes : TrainExternal(outcome)
    \/ \E outcome \in Outcomes : TrainSaveModel(outcome)
    \/ \E outcome \in Outcomes : TrainSaveTokenizer(outcome)
    \/ TrainReturn

SpecTrain == InitTrain /\ [][NextTrain]_vars

\* ------------------------------------------------ ui/state.py, 2_Arena.py

(***************************************************************************)
(* The dashboard is one process serving every browser session.  A Python   *)
(* list is an object: heap holds the lists by object number, and a         *)
(* session's st.session_state["arena_messages"] is a reference to one of   *)
(* them.  Object 1 is the list literal in _DEFAULTS, made once when        *)
(* ui/state.py is imported.                                                *)
(***************************************************************************)

\* Largest number of prompts submitted over all sessions.
MaxPrompts == 2
\* Largest number of list objects (the default and the ones Clear makes).
MaxLists == 3

SessionIds == {1, 2, 3}

\* What a user types: the text is tagged with the session it is typed in.
PromptTexts == {"p", "q"}
Prompt(s, text) == <<s, text>>

\* The responses of the two models to a prompt.
Response(model_key, prompt) == <<model_key, prompt>>

DefaultList == 1

\* A session that has run no page yet: the key is not in st.session_state.
NoSession == [has |-> FALSE, ref |-> 0]

\* Total number of prompts in the lists.
RECURSIVE PromptsIn(_, _)
PromptsIn(h, k) ==
    IF k = 0 THEN 0
    ELSE PromptsIn(h, k - 1)
           + Cardinality({i \in 1..Len(h[k]) : h[k][i].role = "user"})

\* init_state(): a key that is missing gets the default object itself.
InitStateResult(ss, s) ==
    IF ss[s].has THEN ss ELSE [ss EXCEPT ![s] = [has |-> TRUE, ref |-> DefaultList]]

\* messages.append(user message); messages.append(assistant message)
AppendExchange(messages, prompt) ==
    messages \o << [role |-> "user", content |-> prompt],
                   [role |-> "assistant",
                    content |-> [base |-> Response("base", prompt),
                                 aligned |-> Response("aligned", prompt)]] >>

InitUI ==
    /\ dirExists = FALSE
    /\ files = <<>>
    /\ written = [r \in RunIds |-> <<>>]
    /\ ret = Ret("init", <<>>, 0, <<>>, 0, "")
    /\ row = NoRow
    /\ out = NoOut
    /\ PipeIdle /\ RegistryIdle /\ ConfigIdle
    /\ train = NoTrain
    /\ disk = EmptyDisk
    /\ inflight = NoWrite
    /\ heap = << <<>> >>
    /\ sessions = [s \in SessionIds |-> NoSession]

\* A run of a page with nothing clicked or typed: init_state() and render.
OpenPage(s) ==
    /\ sessions' = InitStateResult(sessions, s)
    /\ UNCHANGED <<heap, telemetryVars, dataVars, pipeVars, registryVars,
                   configVars, trainVars, liveVars>>

\* A run of the Arena page with a prompt typed: init_state(), then the
\* list the session refers to is appended to in place and stored back.
SubmitPrompt(s, text) ==
    /\ PromptsIn(heap, Len(heap)) < MaxPrompts
    /\ LET ss == InitStateResult(sessions, s)
           ref == ss[s].ref
       IN /\ heap' = [heap EXCEPT ![ref] = AppendExchange(@, Prompt(s, text))]
          /\ sessions' = [ss EXCEPT ![s].ref = ref]
    /\ UNCHANGED <<telemetryVars, dataVars, pipeVars, registryVars,
                   configVars, trainVars, liveVars>>

\* A run of the Arena page with "Clear chat" clicked: init_state(), then
\* set_value("arena_messages", []) with a new list, then the rerun.
ClearChat(s) ==
    /\ Len(heap) < MaxLists
    /\ heap' = Append(heap, <<>>)
    /\ sessions' = [InitStateResult(sessions, s) EXCEPT ![s].ref = Len(heap) + 1]
    /\ UNCHANGED <<telemetryVars, dataVars, pipeVars, registryVars,
                   configVars, trainVars, liveVars>>

NextUI ==
    \/ \E s \in SessionIds : OpenPage(s)
    \/ \E s \in SessionIds, text \in PromptTexts : SubmitPrompt(s, text)
    \/ \E s \in SessionIds : ClearChat(s)

SpecUI == InitUI /\ [][NextUI]_vars

\* ================================================================ claims

IsPrefix(s, t) == Len(s) <= Len(t) /\ SubSeq(t, 1, Len(s)) = s

Min(a, b) == IF a < b THEN a ELSE b

\* The last k elements of s (all of s when k >= Len(s)).
LastK(s, k) == SubSeq(s, Len(s) - Min(k, Len(s)) + 1, Len(s))

NonDecreasing(steps) ==
    \A i, j \in 1..Len(steps) : i < j => steps[i] <= steps[j]

StepsOf(recs) == [i \in 1..Len(recs) |-> recs[i].step]

\* Exactly one line is added at the end of file f, nothing else changes.
OneLineAppended(f) ==
    /\ DOMAIN files' = DOMAIN files \cup {f}
    /\ Len(LinesOf(files', f)) = Len(Lines(f)) + 1
    /\ IsPrefix(Lines(f), LinesOf(files', f))
    /\ \A g \in DOMAIN files : g # f => files'[g] = files[g]

\* C1: the log is append-only: every step keeps every file and every line
\* already in it, in place, and a write adds exactly one line at the end of
\* the run's file.
C1_AppendOnly ==
    [][ /\ \A f \in DOMAIN files :
              f \in DOMAIN files' /\ IsPrefix(files[f], files'[f])
        /\ (ret'.op = "write" => OneLineAppended(LogFile(ret'.run))) ]_vars

C1_Witness == ret.op = "write" /\ Len(Lines(LogFile(ret.run))) = 2

\* C2 (as claimed): read_all returns exactly the events written to the run,
\* in write order, each equal field for field to the event written.
C2_RoundTrip ==
    ret.op = "read_all" => ret.err = "" /\ ret.events = written[ret.run]

\* C3 (as claimed): in every log a later line never has a smaller step.
C3_StepsMonotonic ==
    \A f \in DOMAIN files : NonDecreasing(StepsOf(files[f]))

\* C3 (amended): the log is monotonic in step whenever the steps handed to
\* the writes of that run were non-decreasing in call order.
C3_MonotonicIfCallsAre ==
    \A r \in RunIds :
        NonDecreasing(StepsOf(written[r])) => NonDecreasing(StepsOf(Lines(LogFile(r))))

C3_Witness ==
    \E r \in RunIds :
        /\ Len(Lines(LogFile(r))) = 2
        /\ Lines(LogFile(r))[1].step < Lines(LogFile(r))[2].step

EventNonNegative(e) ==
    e.step >= 0 /\ e.learning_rate.k = "num" /\ e.learning_rate.v >= 0

AllLoggedNonNegative ==
    \A r \in RunIds :
        /\ \A i \in 1..Len(written[r]) : EventNonNegative(written[r][i])
        /\ \A i \in 1..Len(Lines(LogFile(r))) : EventNonNegative(Lines(LogFile(r))[i])

\* The on_log arguments carry a negative step or a negative learning rate.
CarriesNegative(state, logs) ==
    \/ state.kind = "state" /\ state.global_step < 0
    \/ \E p \in logs.items : p[1] = "learning_rate" /\ p[2].k = "num" /\ p[2].v < 0

\* C4 (as claimed): every on_log call whose state or logs carry a negative
\* step or learning rate raises and appends nothing.
C4_NegativeAlwaysRaises ==
    [][ ret'.op = "on_log" =>
        \A call \in OnLogCalls :
            (CarriesNegative(call[1], call[2])
                /\ OnLog(ret'.run, ret'.run, call[1], call[2]))
                => (ret'.err = "ValidationError" /\ files' = files) ]_vars

\* C4 (amended): every logged event has step >= 0 and learning_rate >= 0, and
\* an on_log call with non-empty logs whose state or logs carry a negative
\* step or learning rate raises and appends nothing; with None or empty logs
\* on_log returns without raising (and without appending).
C4_NonNegative ==
    /\ []AllLoggedNonNegative
    /\ [][ ret'.op = "on_log" =>
            \A call \in OnLogCalls :
            (CarriesNegative(call[1], call[2])
                /\ OnLog(ret'.run, ret'.run, call[1], call[2]))
                => /\ files' = files
                   /\ ret'.err = (IF call[2].present /\ call[2].items # {}
                                  THEN "ValidationError" ELSE "skipped") ]_vars

C4_Witness ==
    /\ ret.op = "on_log" /\ ret.err = "ValidationError"
    /\ Len(Lines(LogFile(ret.run))) > 0

\* C5 (as claimed): on_log appends exactly one event when logs is a non-empty
\* dict and nothing (no file created) when logs is None or empty.
C5_OnePerNonEmptyLogs ==
    [][ ret'.op = "on_log" =>
        \A call \in OnLogCalls :
            OnLog(ret'.run, ret'.run, call[1], call[2])
                => IF call[2].present /\ call[2].items # {}
                   THEN OneLineAppended(LogFile(ret'.run))
                   ELSE files' = files ]_vars

\* C5 (amended): on_log appends exactly one event when logs is a non-empty
\* dict whose values pass RunEvent validation (step >= 0, learning_rate >= 0),
\* and nothing (log unchanged, no file created) when logs is None or empty or
\* when validation fails.
C5_OnePerValidLogs ==
    [][ ret'.op = "on_log" =>
        \A call \in OnLogCalls :
            OnLog(ret'.run, ret'.run, call[1], call[2])
                => IF /\ call[2].present /\ call[2].items # {}
                      /\ ~CarriesNegative(call[1], call[2])
                   THEN OneLineAppended(LogFile(ret'.run))
                   ELSE files' = files ]_vars

C5_Witness ==
    ret.op = "on_log" /\ ret.err = "" /\ Len(Lines(LogFile(ret.run))) = 2

\* C6 (as claimed): tail(n) returns exactly min(n, m) events, the last ones
\* written, in write order.
C6_TailLastN ==
    (ret.op = "tail" /\ ret.err = "")
        => /\ Len(ret.events) = Min(ret.n, Len(written[ret.run]))
           /\ ret.events = LastK(written[ret.run], ret.n)

\* C7 (as claimed): count() is the number of events written to the run and
\* equals len(read_all()); it is 0 without a log file.
C7_CountIsLen ==
    ret.op = "count"
        => /\ ret.num = Len(written[ret.run])
           /\ AllLinesValid(LogFile(ret.run))
           /\ ret.num = Len(ParsedEvents(LogFile(ret.run)))
           /\ (LogFile(ret.run) \notin DOMAIN files => ret.num = 0)

SeqRange(s) == {s[i] : i \in 1..Len(s)}

\* C8: list_runs returns, ascending and without duplicates, exactly the run
\* ids that had at least one event written; the empty list when the
\* directory does not exist; constructing a writer or reader lists nothing.
C8_ListRuns ==
    ret.op = "list_runs"
        => /\ \A i \in 1..(Len(ret.events) - 1) :
                  /\ LexLeq(ret.events[i], ret.events[i + 1])
                  /\ ret.events[i] # ret.events[i + 1]
           /\ SeqRange(ret.events) = {r \in RunIds : Len(written[r]) > 0}
           /\ (~dirExists => ret.events = <<>>)

C8_Witness == ret.op = "list_runs" /\ Len(ret.events) = 2 /\ ret.events[1] = <<97, 46, 98>>

\* C9 (as claimed): every PreferenceRecord produced by a formatter or by
\* validate has a non-empty chosen text and a non-empty rejected text.
C9_NonEmptyResponses ==
    \A i \in 1..Len(out.records) :
        out.records[i].chosen # <<>> /\ out.records[i].rejected # <<>>

\* The text after the last "\n\nAssistant: " (the whole text when there is
\* none) holds nothing but whitespace.
BlankAfterLastAssistant(t) ==
    \A i \in 1..Len(t) :
        (\A j \in i..Len(t) : t[j] # "A") => t[i] = "w"

AfterLastAssistant(t) ==
    LET n == Len(t)
        from == CHOOSE i \in 0..n :
                    /\ i > 0 => t[i] = "A"
                    /\ \A j \in (i + 1)..n : t[j] # "A"
                    /\ i = 0 => \A j \in 1..n : t[j] # "A"
    IN IF from = 0 THEN t ELSE [k \in 1..(n - from) |-> t[from + k]]

\* C11: _extract_last_assistant and _extract_response return the stripped
\* text after the last "\n\nAssistant: ", the whole stripped text when the
\* delimiter does not occur, and never a text that contains the delimiter.
C11_LastAssistantSegment ==
    out.op \in {"_extract_last_assistant", "_extract_response"} =>
        /\ out.value = Strip(AfterLastAssistant(out.arg))
        /\ (\A i \in 1..Len(out.arg) : out.arg[i] # "A") => out.value = Strip(out.arg)
        /\ \A i \in 1..Len(out.value) : out.value[i] # "A"

C11_Witness ==
    /\ out.op = "_extract_response"
    /\ out.arg = <<"H", "x", "A", "x", "H", "y", "A", "x">>
    /\ out.value = <<"x">>

\* The last human turn of t: the text after the last "\n\nHuman: " up to the
\* first "\n\nAssistant: " that follows it; t when there is no human
\* delimiter.
LastHumanTurn(t) ==
    LET n == Len(t)
        humans == {i \in 1..n : t[i] = "H"}
    IN IF humans = {} THEN t
       ELSE LET h == CHOOSE i \in humans : \A j \in humans : j <= i
                stops == {i \in (h + 1)..n : t[i] = "A"} \cup {n + 1}
                e == CHOOSE i \in stops : \A j \in stops : i <= j
            IN [k \in 1..(e - h - 1) |-> t[h + k]]

\* C12: _get_last_human_turn and _extract_shared_prompt return the stripped
\* last human turn of the (chosen) transcript; _extract_prompt returns a
\* non-empty explicit prompt field as it is and the last human turn of
\* chosen otherwise.
C12_LastHumanTurn ==
    /\ out.op \in {"_get_last_human_turn", "_extract_shared_prompt"} =>
           out.value = Strip(LastHumanTurn(out.arg))
    /\ out.op = "_extract_prompt" =>
           IF row.prompt.has /\ row.prompt.text # <<>>
           THEN out.value = row.prompt.text
           ELSE out.value = Strip(LastHumanTurn(GetOr(row.chosen, <<>>)))

C12_Witness ==
    /\ out.op = "_get_last_human_turn"
    /\ out.arg = <<"H", "x", "A", "x", "H", "y", "A", "x">>
    /\ out.value = <<"y">>

\* C13: StandardFormatter.format copies prompt, chosen and rejected of the raw
\* record unchanged, takes source from the raw record or "standard" when it
\* has none, and raises KeyError when prompt, chosen or rejected is missing.
C13_StandardPassThrough ==
    out.op = "standard_format" =>
        IF row.prompt.has /\ row.chosen.has /\ row.rejected.has
        THEN /\ out.err = ""
             /\ Len(out.records) = 1
             /\ out.records[1].prompt = row.prompt.text
             /\ out.records[1].chosen = row.chosen.text
             /\ out.records[1].rejected = row.rejected.text
             /\ out.records[1].source =
                    (IF row.source.has THEN row.source.text ELSE <<"standard">>)
        ELSE out.err = "KeyError" /\ out.records = <<>>

C13_Witness ==
    /\ out.op = "standard_format" /\ out.err = ""
    /\ row.prompt = Present(<<"w", "x">>) /\ row.chosen = Present(<<"H", "x", "A", "x">>)
    /\ out.records[1].prompt = <<"w", "x">>
    /\ out.records[1].chosen = <<"H", "x", "A", "x">>
    /\ out.records[1].source = <<"standard">>

\* A row whose prompt, chosen response and rejected response are all
\* non-empty.
RowIsValid(r) ==
    /\ \/ r.prompt.has /\ r.prompt.text # <<>>
       \/ Strip(LastHumanTurn(GetOr(r.chosen, <<>>))) # <<>>
    /\ Strip(AfterLastAssistant(GetOr(r.chosen, <<>>))) # <<>>
    /\ Strip(AfterLastAssistant(GetOr(r.rejected, <<>>))) # <<>>

ValidIndices(ds) == {i \in 1..Len(ds) : RowIsValid(ds[i])}

\* The j-th smallest element of a set of numbers.
Nth(S, j) == CHOOSE i \in S : Cardinality({m \in S : m <= i}) = j

\* C14: validate returns one record for each valid row, in row order and
\* with the row's index as id, and skips every other row, so that returned +
\* skipped = dataset size; it raises ValueError exactly when no row is valid
\* (the empty dataset included).
C14_ValidateKeepsValidRows ==
    out.op = "validate" =>
        LET valid == ValidIndices(raw_dataset)
        IN /\ out.err \in {"", "ValueError"}
           /\ (out.err = "ValueError") <=> (valid = {})
           /\ Len(out.records) + out.errors = Len(raw_dataset)
           /\ out.err = "" =>
                 /\ Len(out.records) = Cardinality(valid)
                 /\ \A j \in 1..Len(out.records) :
                        LET i == Nth(valid, j)
                            r == raw_dataset[i]
                        IN /\ out.records[j].id = DecStr(i - 1)
                           /\ out.records[j].chosen =
                                  Strip(AfterLastAssistant(GetOr(r.chosen, <<>>)))
                           /\ out.records[j].rejected =
                                  Strip(AfterLastAssistant(GetOr(r.rejected, <<>>)))
                           /\ out.records[j].prompt =
                                  (IF r.prompt.has /\ r.prompt.text # <<>>
                                   THEN r.prompt.text
                                   ELSE Strip(LastHumanTurn(GetOr(r.chosen, <<>>))))

C14_Witness ==
    /\ out.op = "validate" /\ out.err = ""
    /\ Len(raw_dataset) = 3 /\ raw_dataset[2] = NoRow
    /\ Len(out.records) = 2 /\ out.errors = 1
    /\ out.records[2].id = <<2>>

C16_ManifestDeterministic ==
    [][ out'.op = "create_manifest" =>
          /\ out'.value.num_records = Len(validated')
          /\ Len(out'.value.checksum) = 16
          /\ \A i \in 1..16 : out'.value.checksum[i] \in 0..15
          /\ (out.op = "create_manifest" /\ out.arg = out'.arg)
                 => out'.value.checksum = out.value.checksum ]_vars

C16_Witness ==
    /\ out.op = "create_manifest"
    /\ out.value.name = "hh_rlhf" /\ out.value.version = "2.0"
    /\ out.value.num_records = 2

\* C17 (as claimed): record lists that hold the same records in a different
\* order get the same checksum.
C17_ChecksumOrderIndependent ==
    out.op = "create_manifest" =>
        \A p \in Permutations(1..Len(validated)) :
            CreateManifestResult(out.value.name,
                                 [i \in 1..Len(validated) |-> validated[p[i]]],
                                 out.value.version).checksum
                = out.value.checksum

\* C20 (as claimed): load returns the first min(k, size) rows of the source
\* for max_samples = k >= 0, and the whole source for max_samples = None.
C20_LoadAtMostK ==
    out.op = "load" =>
        IF max_samples = PyNone
        THEN raw_dataset = sourceRows
        ELSE /\ Len(raw_dataset) <= max_samples.v
             /\ raw_dataset = SubSeq(sourceRows, 1, Min(max_samples.v, Len(sourceRows)))

\* C18: get(name) returns a new instance of the class registered under name
\* exactly when name is registered, and otherwise raises KeyError and
\* leaves the registry unchanged; available() is the ascending list of the
\* registered names, without duplicates, and holds "dpo" and "ppo".
C18_RegistryGet ==
    [][ /\ out'.op = "get" =>
             IF out'.arg \in DOMAIN registry
             THEN /\ out'.err = ""
                  /\ out'.value.cls = registry[out'.arg]
                  /\ out'.value.oid \notin 1..instances
                  /\ registry' = registry
             ELSE /\ out'.err = "KeyError"
                  /\ registry' = registry /\ instances' = instances
        /\ out'.op = "available" =>
             /\ SeqRange(out'.value) = DOMAIN registry
             /\ \A i \in 1..(Len(out'.value) - 1) :
                    /\ LexLeq(out'.value[i], out'.value[i + 1])
                    /\ out'.value[i] # out'.value[i + 1]
             /\ {NameDpo, NamePpo} \subseteq SeqRange(out'.value)
             /\ registry' = registry ]_vars

C18_Witness ==
    /\ out.op = "get" /\ out.err = ""
    /\ out.arg = NameOrpo /\ out.value.cls = "PPOAlgorithm" /\ out.value.oid = 2

\* The value at section.key of the file (at model.quantization.bits for
\* "bits"), or the default when the file does not have it.
Nested(raw, section, key, default) ==
    LET top == IF raw.t = "map" /\ section \in DOMAIN raw.m THEN raw.m[section] ELSE EmptyMap
        sub == IF key # "bits" THEN top
               ELSE IF top.t = "map" /\ "quantization" \in DOMAIN top.m
                    THEN top.m["quantization"] ELSE EmptyMap
    IN IF sub.t = "map" /\ key \in DOMAIN sub.m THEN Scalar(sub.m[key]) ELSE default

\* The flat configuration the file stands for.
Expected(raw) ==
    [model_name |-> Nested(raw, "model", "name", ""),
     algorithm |-> Nested(raw, "training", "algorithm", "dpo"),
     adapter_type |-> Nested(raw, "adapter", "type", "lora"),
     quantization_bits |-> Nested(raw, "model", "bits", 4),
     batch_size |-> Nested(raw, "training", "batch_size", 4),
     gradient_accumulation_steps |->
         Nested(raw, "training", "gradient_accumulation_steps", 4),
     learning_rate |-> Nested(raw, "training", "learning_rate", 5),
     num_epochs |-> Nested(raw, "training", "num_epochs", 1),
     max_length |-> Nested(raw, "model", "max_length", 512),
     seed |-> Nested(raw, "training", "seed", 42),
     output_dir |-> Nested(raw, "training", "output_dir", "outputs"),
     bf16 |-> Nested(raw, "training", "bf16", TRUE)]

InRange(c) ==
    /\ c.quantization_bits >= 4 /\ c.quantization_bits <= 8
    /\ c.batch_size >= 1 /\ c.gradient_accumulation_steps >= 1
    /\ c.learning_rate > 0 /\ c.num_epochs >= 1 /\ c.max_length >= 64

\* C19 (as claimed): load_config raises FileNotFoundError when the path does
\* not exist; otherwise it returns the flat TrainConfig whose fields are the
\* file's nested values or the defaults, or rejects the file with a
\* validation error when a value is out of range.
C19_LoadConfig ==
    out.op = "load_config" =>
        IF ~configFile.exists THEN out.err = "FileNotFoundError"
        ELSE IF InRange(Expected(configFile.raw))
             THEN out.err = "" /\ out.value = Expected(configFile.raw)
             ELSE out.err = "ValidationError"

\* The prompt, chosen and rejected text of a record.
TextsOf(rec) == <<rec.prompt, rec.chosen, rec.rejected>>

\* C21 (as claimed): for a row without a prompt field, validate accepts the
\* row exactly when AnthropicHHFormatter.format accepts it, and then both
\* give the same prompt, chosen and rejected text.
C21_ValidateIffFormat ==
    [][ (~row.prompt.has /\ out.op = "hh_format" /\ out'.op = "validate") =>
          /\ (out'.err = "") <=> (out.err = "")
          /\ out'.err = "" => TextsOf(out'.records[1]) = TextsOf(out.records[1]) ]_vars

\* C21 (amended): for a row without a prompt field, validate accepts the row
\* exactly when AnthropicHHFormatter.format accepts it and the prompt that
\* format extracts is non-empty, and then both give the same prompt, chosen
\* and rejected text.
C21_ValidateIffFormatWithPrompt ==
    [][ (~row.prompt.has /\ out.op = "hh_format" /\ out'.op = "validate") =>
          /\ (out'.err = "") <=> (out.err = "" /\ out.records[1].prompt # <<>>)
          /\ out'.err = "" => TextsOf(out'.records[1]) = TextsOf(out.records[1]) ]_vars

C21_Witness ==
    /\ out.op = "validate" /\ out.err = "" /\ ~row.prompt.has
    /\ row.chosen = Present(<<"H", "x", "A", "x", "H", "y", "A", "x">>)
    /\ row.rejected = Present(<<"H", "x", "A", "y">>)
    /\ TextsOf(out.records[1]) = << <<"y">>, <<"x">>, <<"y">> >>

\* C22: the event on_log hands to the writer has the callback's run_id,
\* step = state.global_step (0 without a state or a global_step), loss,
\* learning_rate and reward_margin from the logs (0.0, 0.0 and None when
\* absent), and extras = the log entries under every other key.
C22_OnLogFields ==
    [][ (ret'.op = "on_log" /\ ret'.err = "") =>
        \A call \in OnLogCalls :
            OnLog(ret'.run, ret'.run, call[1], call[2]) =>
                LET e == written'[ret'.run][Len(written'[ret'.run])]
                    items == call[2].items
                    keys == {p[1] : p \in items}
                    named == {"loss", "learning_rate", "rewards/margins"}
                    val(k, d) == IF k \in keys
                                 THEN (CHOOSE p \in items : p[1] = k)[2] ELSE d
                IN /\ e.run_id = ret'.run
                   /\ e.step = (IF call[1].kind = "state" THEN call[1].global_step ELSE 0)
                   /\ e.loss = val("loss", Num(0))
                   /\ e.learning_rate = val("learning_rate", Num(0))
                   /\ e.reward_margin = val("rewards/margins", PyNone)
                   /\ e.extras \subseteq items
                   /\ {p[1] : p \in e.extras} = keys \ named ]_vars

C22_Witness ==
    /\ ret.op = "on_log" /\ ret.err = ""
    /\ LET e == written[ret.run][Len(written[ret.run])]
       IN /\ e.loss = Num(0) /\ e.learning_rate = Num(0)
          /\ e.reward_margin = Num(3) /\ e.step = 0
          /\ e.extras = {<<"epoch", Num(1)>>}

\* C23 (as claimed): the prompt of the record AnthropicHHFormatter.format
\* returns is the last human turn of the chosen transcript and of the
\* rejected transcript alike.
C23_PromptSharedByBranches ==
    (out.op = "hh_format" /\ out.err = "") =>
        /\ out.records[1].prompt = Strip(LastHumanTurn(GetOr(row.chosen, <<>>)))
        /\ out.records[1].prompt = Strip(LastHumanTurn(GetOr(row.rejected, <<>>)))

\* The number a sequence of decimal digits stands for.
RECURSIVE IdValue(_)
IdValue(id) ==
    IF id = <<>> THEN 0
    ELSE 10 * IdValue(SubSeq(id, 1, Len(id) - 1)) + id[Len(id)]

\* C24: every record validate returns has source "pipeline" and as id the
\* decimal index of a valid row of the input, the j-th record that of the
\* j-th valid row, so the ids are strictly increasing (and distinct) also
\* where rows in between were skipped.
C24_IdsAreRowIndices ==
    (out.op = "validate" /\ out.err = "") =>
        /\ \A j \in 1..Len(out.records) :
               /\ out.records[j].source = <<"pipeline">>
               /\ out.records[j].id # <<>>
               /\ \A d \in 1..Len(out.records[j].id) : out.records[j].id[d] \in 0..9
               /\ (Len(out.records[j].id) > 1 => out.records[j].id[1] # 0)
               /\ IdValue(out.records[j].id) + 1 = Nth(ValidIndices(raw_dataset), j)
        /\ \A j, k \in 1..Len(out.records) :
               j < k => IdValue(out.records[j].id) < IdValue(out.records[k].id)

C24_Witness ==
    /\ out.op = "validate" /\ out.err = "" /\ Len(raw_dataset) = 12
    /\ Len(out.records) = 3
    /\ out.records[1].id = <<2>> /\ out.records[2].id = <<9>>
    /\ out.records[3].id = <<1, 0>>

\* The statements of train in the order the claim gives them.
C25_Order ==
    << "lookup", "load", "validate", "format", "create_manifest",
       "mkdir", "save_manifest", "model_load",
       "training_args", "trainer_class", "trainer_init", "external_train",
       "save_model", "save_tokenizer", "return" >>

\* Position of a statement in that order.
C25_Pos(name) == CHOOSE i \in 1..Len(C25_Order) : C25_Order[i] = name

\* The parts of C25 that do not speak of failures: the statements that have
\* succeeded are an initial piece of the fixed order, model loading is
\* attempted only with this call's manifest file on disk, and an adapter
\* file of this call exists only once the external trainer has returned.
C25_OrderKept ==
    /\ IsPrefix(train.done, C25_Order)
    /\ (train.at # "" /\ C25_Pos(train.at) >= C25_Pos("model_load"))
          => disk.manifest = "new"
    /\ ("new" \in {disk.adapter_model, disk.adapter_tokenizer})
          => "external_train" \in SeqRange(train.done)
    /\ train.returned => train.err = ""

\* C25 as claimed: train runs its statements in one fixed order, each only
\* after all earlier ones succeeded, the manifest is on disk before model
\* loading starts, the adapter is saved only after the external trainer
\* returned, and a failure at any step means that no adapter is saved and
\* no result is returned.
C25_TrainFailStop ==
    /\ C25_OrderKept
    /\ train.err # "" =>
          /\ ~train.returned
          /\ "new" \notin {disk.adapter_model, disk.adapter_tokenizer}

\* C25 amended: the same, except that only a failure at a step before the
\* adapter save means that no adapter is saved (when saving the tokenizer
\* fails the adapter weights are already in the output directory); a
\* failure at any step means that no result is returned.
C25_TrainFailStopBeforeSave ==
    /\ C25_OrderKept
    /\ train.err # "" =>
          /\ ~train.returned
          /\ C25_Pos(train.at) < C25_Pos("save_model")
                => "new" \notin {disk.adapter_model, disk.adapter_tokenizer}

\* The PPO stub has failed on the training arguments, after the manifest
\* was saved.
C25_Witness ==
    /\ train.cls = "PPOAlgorithm"
    /\ train.err = "NotImplementedError"
    /\ train.at = "training_args"
    /\ disk.manifest = "new"
    /\ disk.adapter_model = "absent"
    /\ ~train.returned

\* C26: train with an algorithm name that is not registered raises
\* KeyError at its first statement: no dataset has been loaded and the
\* output directory, manifest and adapter are as they were before the call.
C26_UnknownAlgorithm ==
    (train.algorithm \notin DOMAIN registry /\ train.at # "") =>
        /\ train.err = "KeyError"
        /\ train.at = "lookup"
        /\ train.done = <<>>
        /\ ~train.returned
        /\ raw_dataset = <<>>
        /\ validated = <<>>
        /\ disk = train.disk0

\* "kto" was looked up and refused, over the output of an earlier run.
C26_Witness ==
    /\ train.algorithm = NameKto
    /\ train.err = "KeyError"
    /\ train.disk0 = OldDisk
    /\ disk = OldDisk

IsSuffix(s, t) == Len(s) <= Len(t) /\ SubSeq(t, Len(t) - Len(s) + 1, Len(t)) = s

\* C27: beside a running writer of the same run, every read_all, tail and
\* count returns without error what a prefix of the events written so far
\* gives (read_all the prefix, tail an end piece of it, count at most its
\* length), and a later read of the same kind never returns fewer events
\* than the one before it.
C27_ReaderSeesPrefix ==
    [][ (ret' # ret /\ ret'.op \in {"read_all", "tail", "count"}) =>
          LET r == ret'.run
              all == written'[r]
          IN /\ ret'.err = ""
             /\ ret'.op = "read_all" => IsPrefix(ret'.events, all)
             /\ ret'.op = "tail" =>
                   \E k \in 0..Len(all) : IsSuffix(ret'.events, SubSeq(all, 1, k))
             /\ ret'.op = "count" => ret'.num <= Len(all)
             /\ (ret.op = ret'.op /\ ret.run = r /\ ret.n = ret'.n /\ ret.err = "")
                   => /\ Len(ret'.events) >= Len(ret.events)
                      /\ ret'.num >= ret.num ]_vars

\* C28: a step that writes an event to run A leaves every other run B as
\* it was: B's log file exists or not as before and holds the same lines,
\* which are all that read_all, tail and count of B depend on; list_runs
\* returns what it returned before, with at most A added.
C28_RunsIsolated ==
    [][ \A A \in RunIds : written'[A] # written[A] =>
          /\ \A B \in RunIds \ {A} :
                /\ (LogFile(B) \in DOMAIN files') = (LogFile(B) \in DOMAIN files)
                /\ LinesOf(files', LogFile(B)) = LinesOf(files, LogFile(B))
          /\ LET before == SeqRange(ListRunsOf(dirExists, files))
                 after == SeqRange(ListRunsOf(dirExists', files'))
             IN before \subseteq after /\ after \subseteq before \cup {A} ]_vars

\* Run "a" has just been written to, beside the log of run "b".
C28_Witness ==
    /\ ret.op = "write"
    /\ ret.run = <<97>>
    /\ Len(Lines(LogFile(<<97>>))) = 1
    /\ Len(Lines(LogFile(<<98>>))) = 1

\* C29: with callbacks made by create_telemetry_callback(log_dir, R), every
\* event logged for run R is a line of R's file and carries run_id R, and
\* every event read_all returns for R has run_id R, also when several runs
\* log into the same directory.
C29_RunIdMatchesLog ==
    /\ \A r \in RunIds :
          /\ Len(Lines(LogFile(r))) = Len(written[r])
          /\ \A i \in 1..Len(Lines(LogFile(r))) : Lines(LogFile(r))[i].run_id = r
    /\ ret.op = "read_all" =>
          \A i \in 1..Len(ret.events) : ret.events[i].run_id = ret.run

\* read_all of run "b" returns the event an on_log call stored there (only
\* on_log fills extras), while run "a" has a log in the same directory.
C29_Witness ==
    /\ ret.op = "read_all"
    /\ ret.run = <<98>>
    /\ Len(ret.events) = 1
    /\ ret.events[1].extras # {}
    /\ ret.events[1].run_id = <<98>>
    /\ Len(Lines(LogFile(<<97>>))) = 1

\* get("arena_messages") in session s.
ArenaMessages(s) == IF sessions[s].has THEN heap[sessions[s].ref] ELSE <<>>

\* The session a message comes from: the one its prompt was typed in.
MessageSession(m) ==
    IF m.role = "user" THEN m.content[1] ELSE m.content.base[2][1]

\* C30: the arena_messages of a session hold only messages of prompts
\* submitted in that session; in particular they are empty after
\* init_state in a session that has submitted nothing, whatever other
\* sessions have submitted.
C30_SessionsIsolated ==
    \A s \in SessionIds :
        \A i \in 1..Len(ArenaMessages(s)) :
            MessageSession(ArenaMessages(s)[i]) = s

====
